---- MODULE Spec2Model ----
(***************************************************************************)
(* Gesture classification (utils/gestureUtils.ts) and the per-frame state  *)
(* resolution of the particle field (components/ParticleField.tsx).        *)
(*                                                                         *)
(* Landmark coordinates are integers in hundredths of the normalised       *)
(* camera space.  Distances are compared by their squares (Math.sqrt is    *)
(* monotone).  World coordinates are kept multiplied by 300, so that       *)
(* (0.5 - cx/3) * viewport.width becomes (150 - cx) * width.               *)
(* Colours are byte triples <<r, g, b>>; THREE.Color maps a byte c to      *)
(* c / 255 (and, with colour management, through the sRGB transfer         *)
(* function, which fixes 0 and 1 and keeps 128/255 below 0.95).            *)
(***************************************************************************)
EXTENDS Integers, Sequences, FiniteSets, TLC

VARIABLES
  mounted,        \* mesh.current and groupRef.current are set
  viewport,       \* useThree().viewport: [width, height]
  handData,       \* App state handData: [isNull, landmarks]
  userColor,      \* App state userColor
  frame,          \* what the last useFrame callback resolved
  landmarksArg,   \* the argument of a direct detectGesture call
  gestureResult,  \* what that call returned
  calls,          \* how many times it was called on this argument
  textGeometries, \* useMemo textGeometries: phrase -> number of cloud points
  particles,      \* useMemo particles: [count, target, finite]
  render,         \* what the last frame's rotation code and particle loop used
  force,          \* one evaluation of the repulsion code of the particle loop
  idle,           \* one particle followed through frames without hands
  runs,           \* two mounts of the field side by side, each with its own inputs
  stale,          \* the observation the last frame read, and whether a newer one arrived
  isFullscreen,   \* App state isFullscreen
  fullscreenElement, \* document.fullscreenElement is set
  fsTasks         \* requests the browser has not settled, callbacks not yet run

extra == <<textGeometries, particles, render, force, idle, runs, stale,
           isFullscreen, fullscreenElement, fsTasks>>

vars == <<mounted, viewport, handData, userColor, frame,
          landmarksArg, gestureResult, calls, extra>>

(***************************************************************************)
(* Bounds                                                                  *)
(***************************************************************************)
MaxHands == 3
MaxCalls == 2

(***************************************************************************)
(* Values                                                                  *)
(***************************************************************************)
COUNT == 8000

Cyan   == <<0, 255, 255>>
White  == <<255, 255, 255>>
Red    == <<255, 0, 0>>
Purple == <<128, 0, 255>>

UserColors == {Cyan, White, Purple}

Labels == {"1", "2", "5", "fist", "unknown"}

Abs(n) == IF n < 0 THEN -n ELSE n

Some(v)  == [isNull |-> FALSE, value |-> v]
Missing  == [isNull |-> TRUE, value |-> <<>>]

(***************************************************************************)
(* Hands as the detector delivers them: 21 landmarks, 0 = wrist, finger f  *)
(* owns landmarks 4f-3 .. 4f (base, pivot, middle joint, tip).             *)
(***************************************************************************)
Pt(px, py, pz) == [x |-> px, y |-> py, z |-> pz]

FingerOffset == <<-8, -4, -1, 2, 4>>

FingerStates == {"ext", "ret", "tie"}

LandmarkAt(pos, pose, k) ==
  IF k = 0 THEN Pt(pos[1], pos[2], 0)
  ELSE LET f == ((k - 1) \div 4) + 1
           j == (k - 1) % 4
           px == pos[1] + FingerOffset[f]
           s == pose[f]
       IN CASE j = 0 -> Pt(px, pos[2] - 6, 0)
            [] j = 1 -> Pt(px, pos[2] - 10, 0)
            [] j = 2 -> IF s = "ext" THEN Pt(px, pos[2] - 13, 0)
                                     ELSE Pt(px, pos[2] - 8, 0)
            [] OTHER -> IF s = "ext" THEN Pt(px, pos[2] - 16, 0)
                        ELSE IF s = "tie" THEN Pt(px, pos[2] - 8, 6)
                        ELSE Pt(px, pos[2] - 5, 0)

\* A hand of n landmarks (n = 21 for a well-formed hand).
MkHand(pos, pose, n) ==
  [i \in 1..n |-> LandmarkAt(pos, pose, IF i <= 21 THEN i - 1 ELSE 0)]

AllPoses == [1..5 -> FingerStates]

PoseFive    == <<"ext", "ext", "ext", "ext", "ext">>
PoseOne     == <<"ret", "ext", "ret", "ret", "ret">>
PoseTwo     == <<"ext", "ext", "ext", "ret", "ret">>
PoseFist    == <<"ext", "ret", "ret", "ret", "ret">>
PoseUnknown == <<"ret", "ret", "ret", "ext", "ext">>

FramePoses == {PoseFive, PoseOne, PoseTwo, PoseFist, PoseUnknown}

PosNear == <<45, 49>>
PosMid  == <<10, 39>>
PosFar  == <<100, 79>>

Placements == {<<PosNear, PosNear>>, <<PosNear, PosMid>>, <<PosFar, PosFar>>}

MalformedLengths == {1, 5, 18, 20}

Viewports == {[width |-> 24, height |-> 16], [width |-> 30, height |-> 17]}

(***************************************************************************)
(* utils/gestureUtils.ts                                                   *)
(***************************************************************************)
\* distance(a, b), squared.
distanceSq(a, b) ==
  (a.x - b.x) * (a.x - b.x) + (a.y - b.y) * (a.y - b.y) + (a.z - b.z) * (a.z - b.z)

\* landmarks[idx] is an object (reading .x of undefined raises a TypeError).
HasLandmark(landmarks, idx) == idx + 1 <= Len(landmarks)

isFingerExtended(landmarks, tipIdx, pipIdx) ==
  LET wrist == landmarks[1]
      tip == landmarks[tipIdx + 1]
      pip == landmarks[pipIdx + 1]
  IN distanceSq(wrist, tip) > distanceSq(wrist, pip)

\* The landmarks detectGesture reads, in the order it reads them.
GestureIndices == {0, 2, 4, 6, 8, 10, 12, 14, 16, 18, 20}

BoolCount(flags) == Cardinality({i \in DOMAIN flags : flags[i]})

detectGesture_OnlyIndex(landmarks) ==
  IF landmarks.isNull \/ Len(landmarks.value) = 0 THEN "unknown"
  ELSE IF \E idx \in GestureIndices : ~HasLandmark(landmarks.value, idx)
  THEN "TypeError"
  ELSE LET l == landmarks.value
           thumbOpen == isFingerExtended(l, 4, 2)
           indexOpen == isFingerExtended(l, 8, 6)
           middleOpen == isFingerExtended(l, 12, 10)
           ringOpen == isFingerExtended(l, 16, 14)
           pinkyOpen == isFingerExtended(l, 20, 18)
           openCount == BoolCount(<<thumbOpen, indexOpen, middleOpen, ringOpen, pinkyOpen>>)
       IN IF openCount = 5 THEN "5"
          ELSE IF indexOpen /\ openCount = 1 THEN "1"
          ELSE IF indexOpen /\ middleOpen /\ ~ringOpen /\ ~pinkyOpen THEN "2"
          ELSE IF openCount <= 1 /\ ~indexOpen THEN "fist"
          ELSE "unknown"

detectGesture_NoGuard(landmarks) ==
  IF landmarks.isNull
     \/ \E idx \in GestureIndices : ~HasLandmark(landmarks.value, idx)
  THEN "TypeError"
  ELSE LET l == landmarks.value
           thumbOpen == isFingerExtended(l, 4, 2)
           indexOpen == isFingerExtended(l, 8, 6)
           middleOpen == isFingerExtended(l, 12, 10)
           ringOpen == isFingerExtended(l, 16, 14)
           pinkyOpen == isFingerExtended(l, 20, 18)
           openCount == BoolCount(<<thumbOpen, indexOpen, middleOpen, ringOpen, pinkyOpen>>)
       IN IF openCount = 5 THEN "5"
          ELSE IF indexOpen /\ ~middleOpen /\ ~ringOpen /\ ~pinkyOpen THEN "1"
          ELSE IF indexOpen /\ middleOpen /\ ~ringOpen /\ ~pinkyOpen THEN "2"
          ELSE IF openCount <= 1 /\ ~indexOpen THEN "fist"
          ELSE "unknown"

\* Returns a label, or "TypeError" when it raises.
detectGesture(landmarks) ==
  IF landmarks.isNull \/ Len(landmarks.value) = 0 THEN "unknown"
  ELSE IF \E idx \in GestureIndices : ~HasLandmark(landmarks.value, idx)
  THEN "TypeError"
  ELSE LET l == landmarks.value
           thumbOpen == isFingerExtended(l, 4, 2)
           indexOpen == isFingerExtended(l, 8, 6)
           middleOpen == isFingerExtended(l, 12, 10)
           ringOpen == isFingerExtended(l, 16, 14)
           pinkyOpen == isFingerExtended(l, 20, 18)
           openCount == BoolCount(<<thumbOpen, indexOpen, middleOpen, ringOpen, pinkyOpen>>)
       IN IF openCount = 5 THEN "5"
          ELSE IF indexOpen /\ ~middleOpen /\ ~ringOpen /\ ~pinkyOpen THEN "1"
          ELSE IF indexOpen /\ middleOpen /\ ~ringOpen /\ ~pinkyOpen THEN "2"
          ELSE IF openCount <= 1 /\ ~indexOpen THEN "fist"
          ELSE "unknown"

(***************************************************************************)
(* components/ParticleField.tsx, the useFrame callback                     *)
(***************************************************************************)
\* const hands = handData?.landmarks || []
handsOf(hd) == IF hd.isNull THEN <<>> ELSE hd.landmarks

\* One element of worldHands; x and y are 300 times the source's, rawX is
\* 300 times the source's.
worldHand(hand, vp) ==
  LET cx == hand[1].x + hand[6].x + hand[18].x
      cy == hand[1].y + hand[6].y + hand[18].y
  IN [x |-> (150 - cx) * vp.width,
      y |-> (150 - cy) * vp.height,
      rawX |-> cx,
      gesture |-> detectGesture(Some(hand))]

worldHands(hands, vp) == [i \in 1..Len(hands) |-> worldHand(hands[i], vp)]

\* The worldHands map or the interactionPoints loop raises a TypeError:
\* hand[0], hand[5] or hand[17] is undefined, or detectGesture raises, or one
\* of hand[4], hand[8], hand[12], hand[16], hand[20], hand[9] is undefined.
FrameRaises(hands) ==
  \E i \in 1..Len(hands) :
    \/ ~HasLandmark(hands[i], 17)
    \/ detectGesture(Some(hands[i])) = "TypeError"
    \/ ~HasLandmark(hands[i], 20)

\* let activeTextTarget = null; let targetColor = new THREE.Color(userColor);
\* let interactionMode = AppState.IDLE
Defaults_Cyan(uc) ==
  [interactionMode |-> "IDLE", activeTextTarget |-> "null", targetColor |-> Cyan]

Defaults(uc) ==
  [interactionMode |-> "IDLE", activeTextTarget |-> "null", targetColor |-> uc]

OneHandBranch_NotFist(st, wh) ==
  LET h == wh[1]
      st1 == IF h.gesture # "fist"
             THEN [st EXCEPT !.activeTextTarget = "HELLO", !.interactionMode = "TEXT_MODE"]
             ELSE st
  IN IF st1.interactionMode # "TEXT_MODE"
     THEN [st1 EXCEPT !.interactionMode = "INTERACTIVE"]
     ELSE st1

OneHandBranch(st, wh) ==
  LET h == wh[1]
      st1 == IF h.gesture = "5"
             THEN [st EXCEPT !.activeTextTarget = "HELLO", !.interactionMode = "TEXT_MODE"]
             ELSE st
  IN IF st1.interactionMode # "TEXT_MODE"
     THEN [st1 EXCEPT !.interactionMode = "INTERACTIVE"]
     ELSE st1

\* 4 * avgDist, times 300.
avgDist4(wh) == Abs(wh[1].x) + Abs(wh[1].y) + Abs(wh[2].x) + Abs(wh[2].y)

DistanceColor_Inclusive(wh) ==
  IF 2 * avgDist4(wh) <= 7 * 4 * 300 THEN White
  ELSE IF avgDist4(wh) < 8 * 4 * 300 THEN Red
  ELSE Cyan

\* avgDist < 3.5 -> '#FFFFFF', avgDist < 8 -> '#FF0000', else '#00FFFF'
DistanceColor(wh) ==
  IF 2 * avgDist4(wh) < 7 * 4 * 300 THEN White
  ELSE IF avgDist4(wh) < 8 * 4 * 300 THEN Red
  ELSE Cyan

TwoHandBranch_Swapped(st, wh) ==
  LET g1 == wh[1].gesture
      g2 == wh[2].gesture
  IN IF g1 = "1" /\ g2 = "1"
     THEN [st EXCEPT !.activeTextTarget = "WITHME", !.interactionMode = "TEXT_MODE"]
     ELSE IF g1 = "2" /\ g2 = "2"
     THEN [st EXCEPT !.activeTextTarget = "YUFU", !.interactionMode = "TEXT_MODE"]
     ELSE IF g1 = "5" /\ g2 = "5"
     THEN [st EXCEPT !.activeTextTarget = "PHOTO", !.interactionMode = "TEXT_MODE"]
     ELSE [st EXCEPT !.interactionMode = "INTERACTIVE", !.targetColor = DistanceColor(wh)]

TwoHandBranch(st, wh) ==
  LET g1 == wh[1].gesture
      g2 == wh[2].gesture
  IN IF g1 = "1" /\ g2 = "1"
     THEN [st EXCEPT !.activeTextTarget = "YUFU", !.interactionMode = "TEXT_MODE"]
     ELSE IF g1 = "2" /\ g2 = "2"
     THEN [st EXCEPT !.activeTextTarget = "WITHME", !.interactionMode = "TEXT_MODE"]
     ELSE IF g1 = "5" /\ g2 = "5"
     THEN [st EXCEPT !.activeTextTarget = "PHOTO", !.interactionMode = "TEXT_MODE"]
     ELSE [st EXCEPT !.interactionMode = "INTERACTIVE", !.targetColor = DistanceColor(wh)]

NoHandBranch_Keep(st) == st

\* } else { targetColor.set('#00FFFF') }
NoHandBranch(st) == [st EXCEPT !.targetColor = Cyan]

\* 1. Analyze Hands & Determine State
ResolveState(hands, uc, vp) ==
  LET handCount == Len(hands)
      wh == worldHands(hands, vp)
      st == Defaults(uc)
  IN IF handCount > 0
     THEN IF handCount = 1 THEN OneHandBranch(st, wh)
          ELSE IF handCount = 2 THEN TwoHandBranch(st, wh)
          ELSE st
     ELSE NoHandBranch(st)

\* targetColor.r > 0.95, for a channel given as a byte
Above095(c) == 100 * c > 95 * 255

isHoldingOf(st) ==
  /\ st.interactionMode = "INTERACTIVE"
  /\ Above095(st.targetColor[1])
  /\ Above095(st.targetColor[2])
  /\ Above095(st.targetColor[3])

\* The whole callback: what it resolved, and how many particles it wrote.
useFrame(hd, uc, vp) ==
  LET hands == handsOf(hd)
  IN IF FrameRaises(hands)
     THEN [status |-> "raised", handCount |-> Len(hands),
           interactionMode |-> Defaults(uc).interactionMode,
           activeTextTarget |-> Defaults(uc).activeTextTarget,
           targetColor |-> Defaults(uc).targetColor,
           isHolding |-> FALSE, written |-> 0]
     ELSE LET st == ResolveState(hands, uc, vp)
          IN [status |-> "done", handCount |-> Len(hands),
              interactionMode |-> st.interactionMode,
              activeTextTarget |-> st.activeTextTarget,
              targetColor |-> st.targetColor,
              isHolding |-> isHoldingOf(st), written |-> COUNT]

(***************************************************************************)
(* Observations the detector can deliver to onHandData                     *)
(***************************************************************************)
Filler == MkHand(PosNear, PoseFive, 21)

RECURSIVE Fillers(_)
Fillers(n) == IF n = 0 THEN <<>> ELSE <<Filler>> \o Fillers(n - 1)

OneHandObs == {<<MkHand(PosMid, p, 21)>> : p \in FramePoses}

TwoHandObs ==
  {<<MkHand(pl[1], p1, 21), MkHand(pl[2], p2, 21)>> :
     pl \in Placements, p1 \in FramePoses, p2 \in FramePoses}

ManyHandObs ==
  UNION {{<<MkHand(PosNear, p1, 21), MkHand(PosNear, p2, 21)>> \o Fillers(n - 2) :
            p1 \in FramePoses, p2 \in FramePoses} : n \in 3..MaxHands}

MalformedObs ==
  {<<MkHand(PosMid, PoseFive, n)>> : n \in MalformedLengths}
  \cup {<<MkHand(PosNear, PoseFive, 21), MkHand(PosNear, PoseFive, 20)>>}

LandmarkLists == {<<>>} \cup OneHandObs \cup TwoHandObs \cup ManyHandObs \cup MalformedObs

NoHandData == [isNull |-> TRUE, landmarks |-> <<>>]

HandResults == {[isNull |-> FALSE, landmarks |-> ls] : ls \in LandmarkLists}

NoFrame ==
  [status |-> "none", handCount |-> 0, interactionMode |-> "IDLE",
   activeTextTarget |-> "null", targetColor |-> Cyan, isHolding |-> FALSE,
   written |-> 0]

(***************************************************************************)
(* The running application                                                 *)
(***************************************************************************)
\* The parts of the program a specification does not exercise stay as they
\* are when nothing has run.
Unused == [used |-> FALSE]

ExtraAtRest ==
  /\ textGeometries = Unused
  /\ particles = Unused
  /\ render = Unused
  /\ force = Unused
  /\ idle = Unused
  /\ runs = Unused
  /\ stale = Unused
  /\ isFullscreen = FALSE
  /\ fullscreenElement = FALSE
  /\ fsTasks = <<>>

Init ==
  /\ mounted = FALSE
  /\ viewport \in Viewports
  /\ handData = NoHandData
  /\ userColor = Cyan
  /\ frame = NoFrame
  /\ landmarksArg = Missing
  /\ gestureResult = "none"
  /\ calls = 0
  /\ ExtraAtRest

\* The refs mesh and groupRef are attached.
Mount ==
  /\ ~mounted
  /\ mounted' = TRUE
  /\ UNCHANGED <<viewport, handData, userColor, frame, landmarksArg, gestureResult, calls, extra>>

\* The canvas is resized.
Resize ==
  /\ \E vp \in Viewports : vp # viewport /\ viewport' = vp
  /\ UNCHANGED <<mounted, handData, userColor, frame, landmarksArg, gestureResult, calls, extra>>

\* predictWebcam: onHandData({landmarks: results.landmarks, ...})
OnHandData ==
  /\ \E hd \in HandResults : handData' = hd
  /\ UNCHANGED <<mounted, viewport, userColor, frame, landmarksArg, gestureResult, calls, extra>>

\* UI colour input: setColor(e.target.value)
SetColor ==
  /\ \E c \in UserColors : userColor' = c
  /\ UNCHANGED <<mounted, viewport, handData, frame, landmarksArg, gestureResult, calls, extra>>

\* useFrame((state, delta) => { if (!mesh.current || !groupRef.current) return; ... })
Frame ==
  /\ mounted
  /\ frame' = useFrame(handData, userColor, viewport)
  /\ UNCHANGED <<mounted, viewport, handData, userColor, landmarksArg, gestureResult, calls, extra>>

Next == Mount \/ Resize \/ OnHandData \/ SetColor \/ Frame

Spec == Init /\ [][Next]_vars

(***************************************************************************)
(* detectGesture called directly on one hand                               *)
(***************************************************************************)
GestureInputs ==
  {Missing, Some(<<>>)}
  \cup {Some(MkHand(PosMid, p, 21)) : p \in AllPoses}
  \cup {Some(MkHand(PosNear, PoseOne, 22))}

InitGesture ==
  /\ mounted = FALSE
  /\ viewport = [width |-> 24, height |-> 16]
  /\ handData = NoHandData
  /\ userColor = Cyan
  /\ frame = NoFrame
  /\ landmarksArg \in GestureInputs
  /\ gestureResult = "none"
  /\ calls = 0
  /\ ExtraAtRest

CallDetect ==
  /\ calls < MaxCalls
  /\ gestureResult' = detectGesture(landmarksArg)
  /\ calls' = calls + 1
  /\ UNCHANGED <<mounted, viewport, handData, userColor, frame, landmarksArg, extra>>

NewHand ==
  /\ \E l \in GestureInputs : landmarksArg' = l
  /\ gestureResult' = "none"
  /\ calls' = 0
  /\ UNCHANGED <<mounted, viewport, handData, userColor, frame, extra>>

NextGesture == CallDetect \/ NewHand

SpecGesture == InitGesture /\ [][NextGesture]_vars

(***************************************************************************)
(* Properties                                                              *)
(***************************************************************************)
AtMostOne(flags) == BoolCount(flags) <= 1

\* The label of the first matching rule, from the five extension results.
RuleLabel(thumb, index, middle, ring, pinky) ==
  IF thumb /\ index /\ middle /\ ring /\ pinky THEN "5"
  ELSE IF index /\ ~middle /\ ~ring /\ ~pinky THEN "1"
  ELSE IF index /\ middle /\ ~ring /\ ~pinky THEN "2"
  ELSE IF AtMostOne(<<thumb, index, middle, ring, pinky>>) /\ ~index THEN "fist"
  ELSE "unknown"

ArgIsHand == ~landmarksArg.isNull /\ Len(landmarksArg.value) >= 21

\* C1: for every combination of the five finger-extension results of a
\* 21-landmark hand, detectGesture returns the label of the first matching
\* rule (five, one, two, fist, unknown, in that order); an open hand is five
\* and a closed hand is fist.
C1_FirstMatchingRule ==
  (calls > 0 /\ ArgIsHand) =>
     LET l == landmarksArg.value
     IN /\ gestureResult = RuleLabel(isFingerExtended(l, 4, 2),
                                     isFingerExtended(l, 8, 6),
                                     isFingerExtended(l, 12, 10),
                                     isFingerExtended(l, 16, 14),
                                     isFingerExtended(l, 20, 18))
        /\ (l = MkHand(PosMid, [f \in 1..5 |-> "ext"], 21) => gestureResult = "5")
        /\ (l = MkHand(PosMid, [f \in 1..5 |-> "ret"], 21) => gestureResult = "fist")

\* Thumb and index extended, the rest retracted: rule two (one) decides.
C1_Witness ==
  /\ calls > 0
  /\ landmarksArg = Some(MkHand(PosMid, <<"ext", "ext", "ret", "ret", "ret">>, 21))
  /\ gestureResult = "1"

\* C2: detectGesture is total and deterministic: on a 21-landmark hand it
\* returns one of the five labels without raising, a second call on the same
\* landmarks returns the same label, and on an empty or missing hand it
\* returns unknown without raising.
C2_TotalDeterministic ==
  [][calls' > calls =>
       /\ (landmarksArg.isNull \/ Len(landmarksArg.value) = 0) => gestureResult' = "unknown"
       /\ (~landmarksArg.isNull /\ Len(landmarksArg.value) = 21) => gestureResult' \in Labels
       /\ calls > 0 => gestureResult' = gestureResult]_vars

C2_Witness ==
  /\ calls = 2
  /\ landmarksArg = Missing
  /\ gestureResult = "unknown"

\* A step of the useFrame callback.  Frame is the only action that writes
\* frame, and every input is met with frame = NoFrame (observations, colours
\* and sizes arrive before the refs are attached), so no input is only ever
\* met by a Frame step that leaves frame as it was.
FrameStep == frame' # frame

\* The label of the i-th hand of the observation the frame reads.
GestureOf(i) == detectGesture(Some(handsOf(handData)[i]))

WellFormed(hands) == \A i \in 1..Len(hands) : Len(hands[i]) = 21

MatchedPair(g1, g2) == g1 = g2 /\ g1 \in {"1", "2", "5"}

\* C3: in a frame with exactly two hands, five+five resolves to TextMode with
\* the PHOTO cloud, one+one to TextMode with YUFU, two+two to TextMode with
\* WITHME, and every other pair of labels to Interactive with no cloud.
C3_TwoHandPairs ==
  [][(FrameStep /\ Len(handsOf(handData)) = 2 /\ WellFormed(handsOf(handData))) =>
       LET g1 == GestureOf(1)
           g2 == GestureOf(2)
       IN /\ frame'.status = "done"
          /\ (g1 = "5" /\ g2 = "5") =>
                frame'.interactionMode = "TEXT_MODE" /\ frame'.activeTextTarget = "PHOTO"
          /\ (g1 = "1" /\ g2 = "1") =>
                frame'.interactionMode = "TEXT_MODE" /\ frame'.activeTextTarget = "YUFU"
          /\ (g1 = "2" /\ g2 = "2") =>
                frame'.interactionMode = "TEXT_MODE" /\ frame'.activeTextTarget = "WITHME"
          /\ ~MatchedPair(g1, g2) =>
                frame'.interactionMode = "INTERACTIVE" /\ frame'.activeTextTarget = "null"]_vars

\* The frame just ran on the current inputs.
FrameIsCurrent == frame.status # "none" /\ frame = useFrame(handData, userColor, viewport)

C3_Witness ==
  /\ FrameIsCurrent
  /\ frame.handCount = 2
  /\ GestureOf(1) = "2" /\ GestureOf(2) = "2"
  /\ frame.interactionMode = "TEXT_MODE"
  /\ frame.activeTextTarget = "WITHME"

\* C4: a frame whose observation holds no hands (a null observation
\* included) resolves to Idle, no cloud, holding false and target colour
\* cyan, whatever the earlier frames and the user colour were.
C4_NoHandsIdle ==
  (frame.status = "done" /\ frame.handCount = 0) =>
     /\ frame.interactionMode = "IDLE"
     /\ frame.activeTextTarget = "null"
     /\ frame.isHolding = FALSE
     /\ frame.targetColor = Cyan

C4_Witness ==
  /\ FrameIsCurrent
  /\ handData.isNull
  /\ userColor = Purple
  /\ frame.status = "done"
  /\ frame.handCount = 0
  /\ frame.targetColor = Cyan

\* C5: in a frame with exactly one hand, the frame resolves to TextMode with
\* the HELLO cloud if and only if the hand is classified five; otherwise it
\* resolves to Interactive with no cloud.
C5_OneHand ==
  [][(FrameStep /\ Len(handsOf(handData)) = 1 /\ WellFormed(handsOf(handData))) =>
       /\ frame'.status = "done"
       /\ (frame'.interactionMode = "TEXT_MODE" /\ frame'.activeTextTarget = "HELLO")
             <=> GestureOf(1) = "5"
       /\ GestureOf(1) # "5" =>
             frame'.interactionMode = "INTERACTIVE" /\ frame'.activeTextTarget = "null"]_vars

C5_Witness ==
  /\ FrameIsCurrent
  /\ frame.handCount = 1
  /\ GestureOf(1) = "5"
  /\ frame.interactionMode = "TEXT_MODE"
  /\ frame.activeTextTarget = "HELLO"

\* Centroid of a hand (landmarks 0, 5, 17), times 3, and the sum over the two
\* hands of |world x| + |world y|, times 300 (= 1200 * average distance).
CentroidX3(hand) == hand[1].x + hand[6].x + hand[18].x
CentroidY3(hand) == hand[1].y + hand[6].y + hand[18].y

Dist1200(hands, vp) ==
  vp.width * (Abs(150 - CentroidX3(hands[1])) + Abs(150 - CentroidX3(hands[2])))
  + vp.height * (Abs(150 - CentroidY3(hands[1])) + Abs(150 - CentroidY3(hands[2])))

BandColor(d1200) ==
  IF d1200 < 4200 THEN White
  ELSE IF d1200 < 9600 THEN Red
  ELSE Cyan

UnmatchedTwoHandFrame ==
  /\ FrameStep
  /\ Len(handsOf(handData)) = 2
  /\ WellFormed(handsOf(handData))
  /\ ~MatchedPair(GestureOf(1), GestureOf(2))

\* C6 as stated: with two hands that form no matched pair the target colour is
\* white below 3.5, red from 3.5 to below 8, cyan from 8, and the user-selected
\* colour is never the target.
C6_Original ==
  [][UnmatchedTwoHandFrame =>
       /\ frame'.targetColor = BandColor(Dist1200(handsOf(handData), viewport))
       /\ frame'.targetColor # userColor]_vars

\* C6: with two hands that form no matched pair the target colour is decided
\* by the average distance alone (white below 3.5, red from 3.5 to below 8,
\* cyan from 8), whatever the user-selected colour is.
C6_DistanceColor ==
  [][UnmatchedTwoHandFrame =>
       frame'.targetColor = BandColor(Dist1200(handsOf(handData), viewport))]_vars

\* Average distance exactly 3.5: red, under a user colour that is not red.
C6_Witness ==
  /\ FrameIsCurrent
  /\ frame.handCount = 2
  /\ frame.interactionMode = "INTERACTIVE"
  /\ Dist1200(handsOf(handData), viewport) = 4200
  /\ userColor = Purple
  /\ frame.targetColor = Red

\* C7: with more than two hands, the mode, cloud and target colour are those
\* the two-hand logic yields for the first two hands (never Idle).
C7_FirstTwoHands ==
  [][(FrameStep /\ Len(handsOf(handData)) > 2 /\ WellFormed(handsOf(handData))) =>
       LET two == useFrame([isNull |-> FALSE,
                            landmarks |-> SubSeq(handsOf(handData), 1, 2)],
                           userColor, viewport)
       IN /\ frame'.interactionMode = two.interactionMode
          /\ frame'.activeTextTarget = two.activeTextTarget
          /\ frame'.targetColor = two.targetColor
          /\ frame'.interactionMode # "IDLE"]_vars

HasMalformedHand(hands) == \E i \in 1..Len(hands) : Len(hands[i]) # 21

RECURSIVE DropMalformed(_)
DropMalformed(hands) ==
  IF hands = <<>> THEN <<>>
  ELSE (IF Len(Head(hands)) = 21 THEN <<Head(hands)>> ELSE <<>>)
       \o DropMalformed(Tail(hands))

\* C8: a frame whose observation holds a hand with a landmark count other
\* than 21 completes without raising, ignores that hand, and still updates
\* every particle.
C8_MalformedIgnored ==
  [][(FrameStep /\ HasMalformedHand(handsOf(handData))) =>
       LET rest == useFrame([isNull |-> FALSE,
                             landmarks |-> DropMalformed(handsOf(handData))],
                            userColor, viewport)
       IN /\ frame'.status = "done"
          /\ frame'.written = COUNT
          /\ frame'.interactionMode = rest.interactionMode
          /\ frame'.activeTextTarget = rest.activeTextTarget]_vars

\* C9 as stated: the user colour is the target whenever the mode is Idle and
\* whenever it is Interactive with one hand.
C9_Original ==
  [][(FrameStep /\ frame'.status = "done"
        /\ \/ frame'.interactionMode = "IDLE"
           \/ frame'.interactionMode = "INTERACTIVE" /\ frame'.handCount = 1) =>
       frame'.targetColor = userColor]_vars

\* C9: the user colour the frame reads is the target whenever the mode is
\* Interactive with one hand, also right after the user changed it; in an
\* Idle frame without hands the target is cyan, not the user colour.
C9_UserColorTarget ==
  [][(FrameStep /\ frame'.status = "done") =>
       /\ (frame'.interactionMode = "INTERACTIVE" /\ frame'.handCount = 1) =>
             frame'.targetColor = userColor
       /\ (frame'.interactionMode = "IDLE" /\ frame'.handCount = 0) =>
             frame'.targetColor = Cyan]_vars

\* The user has changed the colour, and the one-hand frame uses the new one.
C9_Witness ==
  /\ FrameIsCurrent
  /\ frame.handCount = 1
  /\ frame.interactionMode = "INTERACTIVE"
  /\ userColor = Purple
  /\ frame.targetColor = Purple

\* C10: holding is true exactly when the mode is Interactive and the target
\* is white, that is, exactly with two hands, no matched pair and an average
\* distance below 3.5; never in Idle, in TextMode or with a single hand.
C10_HoldingTwoHandsClose ==
  [][(FrameStep /\ frame'.status = "done") =>
       /\ frame'.isHolding <=>
            (frame'.interactionMode = "INTERACTIVE" /\ frame'.targetColor = White)
       /\ frame'.isHolding <=>
            /\ Len(handsOf(handData)) = 2
            /\ ~MatchedPair(GestureOf(1), GestureOf(2))
            /\ Dist1200(handsOf(handData), viewport) < 4200
       /\ frame'.handCount = 1 => ~frame'.isHolding]_vars

(***************************************************************************)
(* The rest of the useFrame callback: rotation, diffusion and the particle *)
(* loop.  Numbers that can leave the finite range carry their kind; finite *)
(* ones are kept in thousandths.                                           *)
(***************************************************************************)
MaxCloud == 2

Num(n) == [kind |-> "num", v |-> n]
NaN == [kind |-> "NaN", v |-> 0]
Infinity == [kind |-> "Infinity", v |-> 0]

RECURSIVE SqrtBetween(_, _, _)
SqrtBetween(n, lo, hi) ==
  IF lo >= hi THEN lo
  ELSE LET mid == (lo + hi + 1) \div 2
       IN IF mid * mid <= n THEN SqrtBetween(n, mid, hi)
                            ELSE SqrtBetween(n, lo, mid - 1)

\* Math.sqrt of a number of hundredths squared, in thousandths of a hundredth.
Sqrt1000(sq) == SqrtBetween(sq * 1000000, 0, 46340)

\* a / b of two non-negative numbers.
Divide(a, b) ==
  IF b = 0 THEN (IF a = 0 THEN NaN ELSE Infinity)
  ELSE Num((a * 1000) \div b)

\* (ratio - 1.0) / 2.0
HalfAboveOne(r) == IF r.kind = "num" THEN Num((r.v - 1000) \div 2) ELSE r

\* Math.max(a, 0): NaN if a is NaN.
MathMax0(a) ==
  IF a.kind = "num" THEN (IF a.v < 0 THEN Num(0) ELSE a) ELSE a

\* Math.min(a, 1): NaN if a is NaN.
MathMin1(a) ==
  IF a.kind = "NaN" THEN NaN
  ELSE IF a.kind = "Infinity" THEN Num(1000)
  ELSE IF a.v > 1000 THEN Num(1000) ELSE a

\* base + a * k
Affine(base, a, k) == IF a.kind = "num" THEN Num(base + a.v * k) ELSE a

\* a + b
Plus(a, b) ==
  IF a.kind = "NaN" \/ b.kind = "NaN" THEN NaN
  ELSE IF a.kind = "Infinity" \/ b.kind = "Infinity" THEN Infinity
  ELSE Num(a.v + b.v)

distance2DSq(a, b) == (a.x - b.x) * (a.x - b.x) + (a.y - b.y) * (a.y - b.y)

palmSizeOf(l) == Sqrt1000(distance2DSq(l[1], l[6]))
spreadOf(l) == Sqrt1000(distance2DSq(l[5], l[21]))

normalizedOpenOf(l) ==
  MathMin1(MathMax0(HalfAboveOne(Divide(spreadOf(l), palmSizeOf(l)))))

\* rawX is cx / 300 here: the band edges 0.2 and 0.8 are 60 and 240.
EdgeTurn(h) ==
  IF h.rawX < 60 THEN Num(2000)
  ELSE IF h.rawX > 240 THEN Num(0 - 2000)
  ELSE Num(100)

\* What lines 85-152 leave in rotationSpeed and diffusion, and what they add
\* to groupRef.current.rotation.y per second (turn).
MotionDefaults == [rotationSpeed |-> Num(200), diffusion |-> Num(1000), turn |-> Num(0)]

OneHandMotion(l, h) ==
  LET open == normalizedOpenOf(l)
  IN [rotationSpeed |-> Affine(200, open, 2),
      diffusion |-> Affine(1000, open, 3),
      turn |-> Plus(EdgeTurn(h), Affine(200, open, 2))]

ResolveMotion(hands, st, vp) ==
  IF Len(hands) = 1 /\ st.interactionMode # "TEXT_MODE"
  THEN OneHandMotion(hands[1], worldHand(hands[1], vp))
  ELSE MotionDefaults

\* textGeometries[phrase]; generateTextParticles returns new Float32Array(0)
\* when the canvas has no 2d context.
CloudKeys == {"HELLO", "YUFU", "WITHME", "PHOTO"}

CloudSizes == [CloudKeys -> {0, MaxCloud}]

\* activeTextTarget && activeTextTarget.length > 0
HasCloud(tg, st) ==
  st.activeTextTarget # "null" /\ tg[st.activeTextTarget] > 0

\* Line 219: which target the particle loop takes.
TargetKind(tg, st) ==
  IF st.interactionMode = "TEXT_MODE" /\ HasCloud(tg, st) THEN "text" ELSE "sphere"

\* Lines 273-282: radius in halves (3.5 is 7) and forceMulti.
ForceSettings(interactionMode, isHolding) ==
  IF isHolding THEN [radius |-> 16, forceMulti |-> 15]
  ELSE IF interactionMode = "TEXT_MODE" THEN [radius |-> 3, forceMulti |-> 8]
  ELSE [radius |-> 7, forceMulti |-> 3]

\* Lines 188-193: the rotation is pulled back to 0.
RotationReset(st) == st.interactionMode = "TEXT_MODE"

NoRender ==
  [ran |-> FALSE, targetKind |-> "sphere", radius |-> 7, forceMulti |-> 3,
   rotationReset |-> FALSE, rotationSpeed |-> Num(200), diffusion |-> Num(1000),
   turn |-> Num(0), points |-> 0]

\* What one frame that does not raise uses.
renderOf(hd, uc, vp, tg) ==
  LET hands == handsOf(hd)
      st == ResolveState(hands, uc, vp)
      m == ResolveMotion(hands, st, vp)
      fs == ForceSettings(st.interactionMode, isHoldingOf(st))
  IN [ran |-> TRUE, targetKind |-> TargetKind(tg, st),
      radius |-> fs.radius, forceMulti |-> fs.forceMulti,
      rotationReset |-> RotationReset(st),
      rotationSpeed |-> m.rotationSpeed, diffusion |-> m.diffusion,
      turn |-> m.turn, points |-> 6 * Len(hands)]

\* Home positions on the sphere of radius 4..6, in hundredths.
Homes == {<<400, 0, 0>>, <<0, 300, 400>>, <<0, 0, 0 - 500>>}

\* The particle loop, lines 211-323: it writes positions and colors.  The
\* positions stay finite iff they were and the target is: a sphere target is
\* particles.target * diffusion + noise.
ParticleLoop_InPlace(p, rd) ==
  [p EXCEPT !.finite = p.finite /\ (rd.targetKind = "text" \/ rd.diffusion.kind = "num"),
            !.target = IF rd.diffusion.kind = "num"
                       THEN <<(p.target[1] * rd.diffusion.v) \div 1000,
                              (p.target[2] * rd.diffusion.v) \div 1000,
                              (p.target[3] * rd.diffusion.v) \div 1000>>
                       ELSE p.target]

ParticleLoop(p, rd) ==
  [p EXCEPT !.finite = p.finite /\ (rd.targetKind = "text" \/ rd.diffusion.kind = "num")]

(***************************************************************************)
(* The field with its particle loop                                        *)
(***************************************************************************)
PoseClosed == <<"ret", "ret", "ret", "ret", "ret">>

\* Thumb and pinky stretched sideways: spread 30, palm sqrt(52).
SplayedHand(pos) ==
  [MkHand(pos, PoseClosed, 21) EXCEPT ![5] = Pt(pos[1] - 15, pos[2] - 8, 0),
                                      ![21] = Pt(pos[1] + 15, pos[2] - 8, 0)]

\* Every landmark on one point: palm size 0 and spread 0.
DegenerateHand(pos) == [i \in 1..21 |-> Pt(pos[1], pos[2], 0)]

\* The index MCP on the wrist: palm size 0, spread 12.
FlatPalmHand(pos) ==
  [MkHand(pos, PoseFist, 21) EXCEPT ![6] = Pt(pos[1], pos[2], 0)]

FieldPositions == {PosMid, PosNear, PosFar}

FieldObs ==
  {<<>>, <<MkHand(PosNear, PoseFive, 21)>>,
   <<DegenerateHand(PosNear)>>, <<FlatPalmHand(PosNear)>>}
  \cup {<<MkHand(pos, PoseFist, 21)>> : pos \in FieldPositions}
  \cup {<<SplayedHand(pos)>> : pos \in FieldPositions}
  \cup {<<MkHand(PosNear, p, 21), MkHand(PosNear, p, 21)>> :
          p \in {PoseFive, PoseOne, PoseTwo, PoseFist}}

FieldColors == {Cyan, White}

InitField ==
  /\ mounted = TRUE
  /\ viewport = [width |-> 24, height |-> 16]
  /\ handData = NoHandData
  /\ userColor = Cyan
  /\ frame = NoFrame
  /\ landmarksArg = Missing
  /\ gestureResult = "none"
  /\ calls = 0
  /\ textGeometries \in CloudSizes
  /\ \E h \in Homes : particles = [count |-> COUNT, target |-> h, finite |-> TRUE]
  /\ render = NoRender
  /\ force = Unused
  /\ idle = Unused
  /\ runs = Unused
  /\ stale = Unused
  /\ isFullscreen = FALSE
  /\ fullscreenElement = FALSE
  /\ fsTasks = <<>>

fieldRest == <<mounted, viewport, landmarksArg, gestureResult, calls,
               force, idle, runs, stale, isFullscreen, fullscreenElement, fsTasks>>

FieldOnHandData ==
  /\ \E ls \in FieldObs : handData' = [isNull |-> FALSE, landmarks |-> ls]
  /\ UNCHANGED <<userColor, frame, textGeometries, particles, render, fieldRest>>

FieldSetColor ==
  /\ \E c \in FieldColors : c # userColor /\ userColor' = c
  /\ UNCHANGED <<handData, frame, textGeometries, particles, render, fieldRest>>

\* One whole useFrame callback, lines 74-327.
FieldFrame ==
  /\ mounted
  /\ frame' = useFrame(handData, userColor, viewport)
  /\ IF frame'.status = "raised"
     THEN UNCHANGED <<render, particles>>
     ELSE /\ render' = renderOf(handData, userColor, viewport, textGeometries)
          /\ particles' = ParticleLoop(particles, render')
  /\ UNCHANGED <<handData, userColor, textGeometries, fieldRest>>

NextField == FieldOnHandData \/ FieldSetColor \/ FieldFrame

SpecField == InitField /\ [][NextField]_vars

\* A frame ran in this step (a frame that changes nothing shows again what
\* the frame that first reached the state showed).
FieldStep == frame' # frame \/ render' # render \/ particles' # particles

OneHandInteractive(fr) ==
  fr.status = "done" /\ fr.handCount = 1 /\ fr.interactionMode = "INTERACTIVE"

\* C11: when a text-trigger gesture combination is seen but its glyph cloud is
\* missing or empty, the frame does not raise and runs as ambient mode: the
\* particle targets are the home-sphere targets, and the force radius, the
\* force multiplier and the rotation handling are those of non-text mode.
C11_EmptyCloudAmbient ==
  [][(FieldStep /\ frame'.interactionMode = "TEXT_MODE"
        /\ ~HasCloud(textGeometries, frame'))
     => /\ frame'.status = "done"
        /\ render'.targetKind = "sphere"
        /\ render'.radius = ForceSettings("IDLE", FALSE).radius
        /\ render'.forceMulti = ForceSettings("IDLE", FALSE).forceMulti
        /\ ~render'.rotationReset]_vars

(***************************************************************************)
(* The repulsion of one interaction point on one particle, lines 263-293.  *)
(* Coordinates are in halves of a world unit.  force is                    *)
(* 1 - distSq / radiusSq; the displacement is kept multiplied by radiusSq. *)
(***************************************************************************)
Repulsion_NoGuard(pos, point, interactionMode, isHolding) ==
  LET dx == pos[1] - point[1]
      dy == pos[2] - point[2]
      dz == pos[3] - 0
      distSq == dx * dx + dy * dy + dz * dz
      fs == ForceSettings(interactionMode, isHolding)
      radiusSq == fs.radius * fs.radius
      forceR2 == radiusSq - distSq
  IN <<dx * forceR2 * fs.forceMulti, dy * forceR2 * fs.forceMulti,
       dz * forceR2 * fs.forceMulti>>

Repulsion(pos, point, interactionMode, isHolding) ==
  LET dx == pos[1] - point[1]
      dy == pos[2] - point[2]
      dz == pos[3] - 0
      distSq == dx * dx + dy * dy + dz * dz
      fs == ForceSettings(interactionMode, isHolding)
      radiusSq == fs.radius * fs.radius
      forceR2 == radiusSq - distSq
  IN IF distSq < radiusSq
     THEN <<dx * forceR2 * fs.forceMulti, dy * forceR2 * fs.forceMulti,
            dz * forceR2 * fs.forceMulti>>
     ELSE <<0, 0, 0>>

ForcePositions ==
  {<<x, y, z>> : x \in {0 - 17, 0 - 16, 0 - 7, 0 - 3, 0 - 1, 0, 2, 3, 7, 8, 16},
                 y \in {0, 3}, z \in {0, 4}}

ForcePoints == {<<0, 0>>, <<0, 3>>}

\* interactionMode and isHolding as line 201 can leave them.
ForceModes ==
  {[interactionMode |-> m, isHolding |-> FALSE] : m \in {"IDLE", "INTERACTIVE", "TEXT_MODE"}}
  \cup {[interactionMode |-> "INTERACTIVE", isHolding |-> TRUE]}

ForceInputs ==
  {[pos |-> ps, point |-> pt, mode |-> m, applied |-> FALSE, push |-> <<0, 0, 0>>] :
     ps \in ForcePositions, pt \in ForcePoints, m \in ForceModes}

InitForce ==
  /\ mounted = TRUE
  /\ viewport = [width |-> 24, height |-> 16]
  /\ handData = NoHandData
  /\ userColor = Cyan
  /\ frame = NoFrame
  /\ landmarksArg = Missing
  /\ gestureResult = "none"
  /\ calls = 0
  /\ textGeometries = Unused
  /\ particles = Unused
  /\ render = Unused
  /\ force \in ForceInputs
  /\ idle = Unused
  /\ runs = Unused
  /\ stale = Unused
  /\ isFullscreen = FALSE
  /\ fullscreenElement = FALSE
  /\ fsTasks = <<>>

forceRest == <<mounted, viewport, handData, userColor, frame, landmarksArg,
               gestureResult, calls, textGeometries, particles, render, idle,
               runs, stale, isFullscreen, fullscreenElement, fsTasks>>

\* The body of the loop over interactionPoints, for one point.
ApplyForce ==
  /\ ~force.applied
  /\ force' = [force EXCEPT !.applied = TRUE,
                 !.push = Repulsion(force.pos, force.point,
                                    force.mode.interactionMode, force.mode.isHolding)]
  /\ UNCHANGED forceRest

NextParticle ==
  /\ \E f \in ForceInputs : force' = f
  /\ UNCHANGED forceRest

NextForce == ApplyForce \/ NextParticle

SpecForce == InitForce /\ [][NextForce]_vars

\* The radius the sentence gives for a mode, in halves.
ModeRadius(m) ==
  IF m.interactionMode = "TEXT_MODE" THEN 3 ELSE IF m.isHolding THEN 16 ELSE 7

ForceDistSq ==
  (force.pos[1] - force.point[1]) * (force.pos[1] - force.point[1])
  + (force.pos[2] - force.point[2]) * (force.pos[2] - force.point[2])
  + force.pos[3] * force.pos[3]

\* C12: for every particle, interaction point and mode, the displacement the
\* point adds to the particle's target is zero when the squared distance from
\* the particle to the point is equal to or greater than the squared mode
\* radius (TextMode 1.5, holding 8.0, otherwise 3.5), and is non-zero only
\* strictly inside that radius.
C12_ZeroOutsideRadius ==
  force.applied =>
    /\ ForceDistSq >= ModeRadius(force.mode) * ModeRadius(force.mode)
         => force.push = <<0, 0, 0>>
    /\ force.push # <<0, 0, 0>>
         => ForceDistSq < ModeRadius(force.mode) * ModeRadius(force.mode)

\* A particle exactly on the TextMode radius (1.5, squared 9 in halves) was
\* left alone by the point.
C12_Witness ==
  /\ force.applied
  /\ force.mode.interactionMode = "TEXT_MODE"
  /\ ForceDistSq = 9
  /\ force.push = <<0, 0, 0>>

InRange(a, lo, hi) == a.kind = "num" /\ lo <= a.v /\ a.v <= hi

\* C13: in a one-hand Interactive frame where the palm size (distance wrist to
\* index MCP) is zero, the diffusion scalar stays a finite number in
\* [1.0, 4.0], the rotation speed stays in [0.2, 2.2] and no particle position
\* becomes non-finite.
C13_ZeroPalmFinite ==
  [][(FieldStep /\ OneHandInteractive(frame')
        /\ palmSizeOf(handData.landmarks[1]) = 0)
     => /\ InRange(render'.diffusion, 1000, 4000)
        /\ InRange(render'.rotationSpeed, 200, 2200)
        /\ (particles.finite => particles'.finite)]_vars

(***************************************************************************)
(* One particle through consecutive frames without hands.  Arithmetic is   *)
(* exact: a coordinate is an integer number of 0.04 / Scale, so that the   *)
(* noise amplitude 0.2 is 5 * Scale and every division by 10 of the lerp   *)
(* is exact for MaxIdleFrames frames.                                      *)
(***************************************************************************)
MaxIdleFrames == 2

Scale == 10 ^ MaxIdleFrames

\* A home position of Homes (hundredths) in these units.
IdleUnits(h) == <<(h[1] * Scale) \div 4, (h[2] * Scale) \div 4, (h[3] * Scale) \div 4>>

\* <<noiseX, noiseY>> = 0.2 * <<sin a, cos a>> for the phases a whose sine and
\* cosine are 0, 1, 3/5 or 4/5 in absolute value.
NoisePoints ==
  {<<5 * Scale, 0>>, <<0, 5 * Scale>>, <<0 - 5 * Scale, 0>>, <<0, 0 - 5 * Scale>>,
   <<3 * Scale, 4 * Scale>>, <<0 - 4 * Scale, 3 * Scale>>,
   <<0 - 3 * Scale, 0 - 4 * Scale>>, <<4 * Scale, 0 - 3 * Scale>>}

\* Lines 231-258: particles.target * diffusion + noise (diffusion in thousandths).
SphereTarget_Loud(home, diffusion, noise) ==
  <<(home[1] * diffusion) \div 1000 + 2 * noise[1],
    (home[2] * diffusion) \div 1000 + 2 * noise[2],
    (home[3] * diffusion) \div 1000>>

SphereTarget(home, diffusion, noise) ==
  <<(home[1] * diffusion) \div 1000 + noise[1],
    (home[2] * diffusion) \div 1000 + noise[2],
    (home[3] * diffusion) \div 1000>>

\* Lines 313-318: speed is 0.15 when holding, else 0.1 (in hundredths).
LerpSpeed(isHolding) == IF isHolding THEN 15 ELSE 10

Lerp(pos, t, speed) ==
  <<pos[1] + ((t[1] - pos[1]) * speed) \div 100,
    pos[2] + ((t[2] - pos[2]) * speed) \div 100,
    pos[3] + ((t[3] - pos[3]) * speed) \div 100>>

\* Where earlier frames can have left the particle, relative to its home.
IdleOffsets ==
  {<<x * Scale, y * Scale, z * Scale>> : x, y, z \in {0 - 10, 0 - 4, 0, 3, 5}}

InitIdle ==
  /\ mounted = TRUE
  /\ viewport = [width |-> 24, height |-> 16]
  /\ handData = NoHandData
  /\ userColor = Cyan
  /\ frame = NoFrame
  /\ landmarksArg = Missing
  /\ gestureResult = "none"
  /\ calls = 0
  /\ textGeometries = Unused
  /\ particles = Unused
  /\ render = Unused
  /\ force = Unused
  /\ \E h \in Homes, e \in IdleOffsets :
       idle = [target |-> IdleUnits(h),
               pos |-> <<IdleUnits(h)[1] + e[1], IdleUnits(h)[2] + e[2],
                         IdleUnits(h)[3] + e[3]>>,
               frames |-> 0]
  /\ runs = Unused
  /\ stale = Unused
  /\ isFullscreen = FALSE
  /\ fullscreenElement = FALSE
  /\ fsTasks = <<>>

idleRest == <<mounted, viewport, userColor, landmarksArg,
              gestureResult, calls, textGeometries, particles, render, force,
              runs, stale, isFullscreen, fullscreenElement, fsTasks>>

\* A frame with handData null or without hands, for one particle: no
\* interaction points, so the target is the sphere target and the lerp follows.
IdleFrame ==
  /\ mounted
  /\ handsOf(handData) = <<>>
  /\ idle.frames < MaxIdleFrames
  /\ frame' = useFrame(handData, userColor, viewport)
  /\ LET rd == renderOf(handData, userColor, viewport, textGeometries)
     IN \E noise \in NoisePoints :
          idle' = [idle EXCEPT
                     !.pos = Lerp(idle.pos,
                                  SphereTarget(idle.target, rd.diffusion.v, noise),
                                  LerpSpeed(frame'.isHolding)),
                     !.frames = idle.frames + 1]
  /\ UNCHANGED <<handData, idleRest>>

\* predictWebcam delivers an observation without hands.
IdleOnHandData ==
  /\ handData' = [isNull |-> FALSE, landmarks |-> <<>>]
  /\ UNCHANGED <<frame, idle, idleRest>>

NextIdle == IdleFrame \/ IdleOnHandData

SpecIdle == InitIdle /\ [][NextIdle]_vars

\* Squared distance of the particle to its home, and the squared amplitude.
HomeDistSq(p) ==
  (p.pos[1] - p.target[1]) * (p.pos[1] - p.target[1])
  + (p.pos[2] - p.target[2]) * (p.pos[2] - p.target[2])
  + (p.pos[3] - p.target[3]) * (p.pos[3] - p.target[3])

AmplitudeSq == (5 * Scale) * (5 * Scale)

\* C14: across consecutive frames with no hands, a particle's distance to its
\* home sphere position is non-increasing from frame to frame as long as it
\* exceeds the ambient noise amplitude 0.2, and once within that amplitude it
\* stays within it.
C14_IdleConverges ==
  [][idle'.frames = idle.frames + 1
     => /\ HomeDistSq(idle) > AmplitudeSq => HomeDistSq(idle') <= HomeDistSq(idle)
        /\ HomeDistSq(idle) <= AmplitudeSq => HomeDistSq(idle') <= AmplitudeSq]_vars

\* After two frames without hands a particle that started outside the
\* amplitude has come closer and is still outside it.
C14_Witness ==
  /\ idle.frames = 2
  /\ frame.interactionMode = "IDLE" /\ frame.status = "done"
  /\ HomeDistSq(idle) > AmplitudeSq

\* C15: after any sequence of frames in any modes the particle count is still
\* 8000 and every particle's home position is the one it was given at
\* creation: no step writes the home array or the glyph clouds.
C15_HomeNeverWritten ==
  [][/\ particles'.count = COUNT
     /\ particles'.count = particles.count
     /\ particles'.target = particles.target
     /\ textGeometries' = textGeometries]_vars

\* A frame that spread the sphere by the full diffusion 4.0 has run, and the
\* home position is still one of the created ones.
C15_Witness ==
  /\ render.ran
  /\ render.diffusion = Num(4000)
  /\ frame.written = COUNT
  /\ particles.target \in Homes
  /\ particles.count = COUNT

(***************************************************************************)
(* Two mounts of the field side by side, each fed its own observations,    *)
(* colours and viewport.                                                   *)
(***************************************************************************)
\* Two fists at this place are closer than 3.5 on average in the 24 x 16
\* viewport and farther in the 30 x 17 one.
PosEdge == <<25, 49>>

RunObs ==
  {<<>>, <<MkHand(PosNear, PoseFive, 21)>>, <<MkHand(PosNear, PoseFist, 21)>>,
   <<MkHand(PosEdge, PoseFist, 21), MkHand(PosEdge, PoseFist, 21)>>}

\* The callback after an earlier call left prev: every local of lines 82-89
\* is declared anew, nothing of prev is read.
FrameAfter_Latched(prev, hd, uc, vp) ==
  LET fr == useFrame(hd, uc, vp)
  IN IF prev.interactionMode = "TEXT_MODE" /\ fr.interactionMode = "IDLE"
     THEN [fr EXCEPT !.interactionMode = "TEXT_MODE",
                     !.activeTextTarget = prev.activeTextTarget]
     ELSE fr

FrameAfter(prev, hd, uc, vp) == useFrame(hd, uc, vp)

\* current: the last frame ran on the inputs the run has now.
\* afterText: the frame before the last one resolved to TextMode.
NewRun(vp) ==
  [handData |-> NoHandData, userColor |-> Cyan, viewport |-> vp,
   frame |-> NoFrame, current |-> FALSE, afterText |-> FALSE]

InitRuns ==
  /\ mounted = TRUE
  /\ viewport = [width |-> 24, height |-> 16]
  /\ handData = NoHandData
  /\ userColor = Cyan
  /\ frame = NoFrame
  /\ landmarksArg = Missing
  /\ gestureResult = "none"
  /\ calls = 0
  /\ textGeometries = Unused
  /\ particles = Unused
  /\ render = Unused
  /\ force = Unused
  /\ idle = Unused
  /\ \E v2 \in Viewports : runs = <<NewRun(viewport), NewRun(v2)>>
  /\ stale = Unused
  /\ isFullscreen = FALSE
  /\ fullscreenElement = FALSE
  /\ fsTasks = <<>>

runsRest == <<mounted, viewport, handData, userColor, frame, landmarksArg,
              gestureResult, calls, textGeometries, particles, render, force,
              idle, stale, isFullscreen, fullscreenElement, fsTasks>>

RunOnHandData(r) ==
  /\ \E ls \in RunObs :
       runs' = [runs EXCEPT ![r].handData = [isNull |-> FALSE, landmarks |-> ls],
                            ![r].current = FALSE]
  /\ UNCHANGED runsRest

RunSetColor(r) ==
  /\ \E c \in FieldColors :
       /\ c # runs[r].userColor
       /\ runs' = [runs EXCEPT ![r].userColor = c, ![r].current = FALSE]
  /\ UNCHANGED runsRest

RunFrame(r) ==
  /\ runs' = [runs EXCEPT
                ![r].frame = FrameAfter(runs[r].frame, runs[r].handData,
                                        runs[r].userColor, runs[r].viewport),
                ![r].current = TRUE,
                ![r].afterText = runs[r].frame.interactionMode = "TEXT_MODE"]
  /\ UNCHANGED runsRest

NextRuns == \E r \in {1, 2} : RunOnHandData(r) \/ RunSetColor(r) \/ RunFrame(r)

SpecRuns == InitRuns /\ [][NextRuns]_vars

SameFrameInputs ==
  /\ runs[1].current /\ runs[2].current
  /\ runs[1].handData = runs[2].handData
  /\ runs[1].userColor = runs[2].userColor

SameResolution ==
  /\ runs[1].frame.interactionMode = runs[2].frame.interactionMode
  /\ runs[1].frame.activeTextTarget = runs[2].frame.activeTextTarget
  /\ runs[1].frame.isHolding = runs[2].frame.isHolding

\* C16 as stated: two runs that receive the same observation and user colour
\* in a frame resolve to the same mode, cloud and holding flag.
C16_Original == SameFrameInputs => SameResolution

\* C16: two runs with different frame histories that receive the same
\* observation and user colour in a frame, in viewports of the same size,
\* resolve to the same mode, cloud and holding flag in that frame.
C16_HistoryFree ==
  (SameFrameInputs /\ runs[1].viewport = runs[2].viewport) => SameResolution

\* Both runs resolved the same inputs, one right after a TextMode frame and
\* the other not.
C16_Witness ==
  /\ SameFrameInputs /\ runs[1].viewport = runs[2].viewport
  /\ runs[1].afterText /\ ~runs[2].afterText
  /\ runs[1].frame.interactionMode = "IDLE"

(***************************************************************************)
(* Observation arrivals (predictWebcam -> setHandData) interleaved with    *)
(* frame ticks.  setHandData replaces the whole handData object.           *)
(***************************************************************************)
StaleObs ==
  {<<>>, <<MkHand(PosNear, PoseFive, 21)>>, <<MkHand(PosNear, PoseFist, 21)>>,
   <<MkHand(PosNear, PoseFive, 1)>>,
   <<MkHand(PosNear, PoseOne, 21), MkHand(PosNear, PoseOne, 21)>>}

\* seen: the handData object the last frame read; arrived: an observation was
\* delivered since that frame; tick: parity of the number of frames.
InitStale ==
  /\ mounted = TRUE
  /\ viewport = [width |-> 24, height |-> 16]
  /\ handData = NoHandData
  /\ userColor = Cyan
  /\ frame = NoFrame
  /\ landmarksArg = Missing
  /\ gestureResult = "none"
  /\ calls = 0
  /\ textGeometries = Unused
  /\ particles = Unused
  /\ render = Unused
  /\ force = Unused
  /\ idle = Unused
  /\ runs = Unused
  /\ stale = [seen |-> NoHandData, arrived |-> FALSE, tick |-> FALSE]
  /\ isFullscreen = FALSE
  /\ fullscreenElement = FALSE
  /\ fsTasks = <<>>

staleRest == <<mounted, viewport, landmarksArg, gestureResult, calls,
               textGeometries, particles, render, force, idle, runs,
               isFullscreen, fullscreenElement, fsTasks>>

StaleOnHandData ==
  /\ \E ls \in StaleObs : handData' = [isNull |-> FALSE, landmarks |-> ls]
  /\ stale' = [stale EXCEPT !.arrived = TRUE]
  /\ UNCHANGED <<userColor, frame, staleRest>>

StaleSetColor ==
  /\ \E c \in FieldColors : c # userColor /\ userColor' = c
  /\ UNCHANGED <<handData, frame, stale, staleRest>>

\* The callback reads the handData prop once (line 82) and works on it.
StaleFrame ==
  /\ mounted
  /\ frame' = useFrame(handData, userColor, viewport)
  /\ stale' = [seen |-> handData, arrived |-> FALSE, tick |-> ~stale.tick]
  /\ UNCHANGED <<handData, userColor, staleRest>>

NextStale == StaleOnHandData \/ StaleSetColor \/ StaleFrame

SpecStale == InitStale /\ [][NextStale]_vars

\* C17: for any interleaving of observation arrivals and frame ticks, each
\* frame uses one whole observation snapshot, the latest one delivered before
\* the frame; a frame that runs when no new observation has arrived since the
\* previous frame reuses the previous observation and completes without
\* raising, resolving to the same mode as the previous frame.
C17_StaleFrameReuses ==
  [][stale'.tick # stale.tick
     => /\ stale'.seen = handData
        /\ (frame.status # "none" /\ ~stale.arrived)
             => /\ stale'.seen = stale.seen
                /\ frame'.status = "done"
                /\ frame'.interactionMode = frame.interactionMode]_vars

\* C18: in a one-hand Interactive frame a hand in the outer 20% of the
\* viewport overrides the rotation: a hand at the left edge (rawX < 0.2) and a
\* hand at the right edge (rawX > 0.8) turn the group in opposite directions,
\* whatever the hand's openness.
C18_EdgesTurnOpposite ==
  [][(FieldStep /\ OneHandInteractive(frame'))
     => LET rawX == worldHand(handData.landmarks[1], viewport).rawX
        IN /\ rawX < 60 => (render'.turn.kind = "num" /\ render'.turn.v > 0)
           /\ rawX > 240 => (render'.turn.kind = "num" /\ render'.turn.v < 0)]_vars

(***************************************************************************)
(* Fullscreen (App.tsx).  fsTasks is the queue of what has been started    *)
(* and not yet happened: "request" and "exit" are calls the browser has    *)
(* not settled, "change" a fullscreenchange event not yet dispatched,      *)
(* "thenTrue" and "thenFalse" promise reactions not yet run.               *)
(***************************************************************************)
MaxTasks == 4

InitFullscreen ==
  /\ mounted = TRUE
  /\ viewport = [width |-> 24, height |-> 16]
  /\ handData = NoHandData
  /\ userColor = Cyan
  /\ frame = NoFrame
  /\ landmarksArg = Missing
  /\ gestureResult = "none"
  /\ calls = 0
  /\ textGeometries = Unused
  /\ particles = Unused
  /\ render = Unused
  /\ force = Unused
  /\ idle = Unused
  /\ runs = Unused
  /\ stale = Unused
  /\ isFullscreen = FALSE
  /\ fullscreenElement = FALSE
  /\ fsTasks = <<>>

fsRest == <<mounted, viewport, handData, userColor, frame, landmarksArg,
            gestureResult, calls, textGeometries, particles, render, force,
            idle, runs, stale>>

HeadIs(t) == fsTasks # <<>> /\ Head(fsTasks) = t

\* toggleFullscreen, lines 43-51.
toggleFullscreen ==
  /\ Len(fsTasks) < MaxTasks
  /\ fsTasks' = Append(fsTasks, IF ~fullscreenElement THEN "request" ELSE "exit")
  /\ UNCHANGED <<isFullscreen, fullscreenElement, fsRest>>

\* The browser grants documentElement.requestFullscreen(): the promise is
\* fulfilled, .catch passes it on and .then(() => setIsFullscreen(true)) is due.
GrantRequest ==
  /\ HeadIs("request")
  /\ fullscreenElement' = TRUE
  /\ fsTasks' = Tail(fsTasks) \o (IF fullscreenElement THEN <<"thenTrue">>
                                  ELSE <<"change", "thenTrue">>)
  /\ UNCHANGED <<isFullscreen, fsRest>>

\* The browser rejects it: the .catch handler logs and returns, so the promise
\* it gives is fulfilled and the .then after it is due all the same.
RejectRequest ==
  /\ HeadIs("request")
  /\ fsTasks' = Tail(fsTasks) \o <<"thenTrue">>
  /\ UNCHANGED <<isFullscreen, fullscreenElement, fsRest>>

\* document.exitFullscreen() settles: fulfilled if there was a fullscreen
\* element, otherwise rejected (and .then(() => setIsFullscreen(false)) skipped).
SettleExit ==
  /\ HeadIs("exit")
  /\ fullscreenElement' = FALSE
  /\ fsTasks' = Tail(fsTasks) \o (IF fullscreenElement THEN <<"change", "thenFalse">>
                                  ELSE <<>>)
  /\ UNCHANGED <<isFullscreen, fsRest>>

\* The user leaves fullscreen with the Escape key.
UserEscape ==
  /\ fullscreenElement
  /\ Len(fsTasks) < MaxTasks
  /\ fullscreenElement' = FALSE
  /\ fsTasks' = Append(fsTasks, "change")
  /\ UNCHANGED <<isFullscreen, fsRest>>

\* handleFsChange, line 54.
handleFsChange ==
  /\ HeadIs("change")
  /\ isFullscreen' = fullscreenElement
  /\ fsTasks' = Tail(fsTasks)
  /\ UNCHANGED <<fullscreenElement, fsRest>>

\* () => setIsFullscreen(true) and () => setIsFullscreen(false), lines 47, 49.
RunThen ==
  /\ HeadIs("thenTrue") \/ HeadIs("thenFalse")
  /\ isFullscreen' = HeadIs("thenTrue")
  /\ fsTasks' = Tail(fsTasks)
  /\ UNCHANGED <<fullscreenElement, fsRest>>

NextFullscreen ==
  \/ toggleFullscreen \/ GrantRequest \/ RejectRequest \/ SettleExit
  \/ UserEscape \/ handleFsChange \/ RunThen

SpecFullscreen == InitFullscreen /\ [][NextFullscreen]_vars

\* C19: after any sequence of fullscreen toggle clicks, fullscreenchange
\* events and fullscreen requests that succeed or are rejected, once no
\* request is pending the isFullscreen flag is true if and only if the
\* document has a fullscreen element; a rejected request leaves it false.
C19_FlagMirrorsDocument ==
  fsTasks = <<>> => (isFullscreen <=> fullscreenElement)
====
